---- MODULE Spec2Model ----
(***************************************************************************)
(* LocalSocket: the in-process AF_UNIX endpoint of posix_translation        *)
(* (src/src/posix_translation/local_socket.cc).                             *)
(*                                                                          *)
(* Every LocalSocket method runs with the VirtualFileSystem mutex held, so  *)
(* a method that never calls Wait/WaitUntil is one atomic action.  A method *)
(* that waits (connect, accept, recvmsg) is split at its wait: the calling  *)
(* thread parks in `threads` and a later Resume/Timeout action runs the     *)
(* code that follows the wait.  Every action records what the call that it  *)
(* completes returned in `ret` (NoRet when the action completes no call).   *)
(***************************************************************************)
EXTENDS Integers, Sequences, FiniteSets, TLC

(***************************************************************************)
(* Bounds of the model.                                                     *)
(***************************************************************************)
\* rendezvous: endpoint slots (LocalSocket objects that can ever be
\* constructed), how many of them socket() may fill (accept fills the rest),
\* and the threads that can be parked in a blocking call at the same time
ConnEP == 4
ConnSockets == 2
ConnThreads == 2
\* largest backlog value passed to listen()
MaxBacklog == 2
\* backlog: endpoint slots, and how many of them socket() may fill
BacklogEP == 4
BacklogSockets == 3
\* refused connects: endpoint slots and threads that can be parked
RefuseEP == 2
RefuseThreads == 1
\* data path: endpoint slots (one socketpair) and the threads that can be
\* parked in recvmsg at the same time
PairEP == 2
DataThreads == 1
\* blocking calls: endpoint slots (a listener, its client and the endpoint
\* accept makes, or a socketpair) and threads that can be parked
BlockEP == 3
BlockThreads == 1
\* capacity of buffer_ in the model; stands for kBufferSize (224 KiB)
RingCapacity == 2
\* payload bytes the sendmsg calls of a run offer in total
MaxBytes == 3
\* file descriptors DupLocked can hand out in total
MaxFds == 2
\* datagrams that wait in one queue_ when a further empty one is sent
MaxQueued == 2

NULL == 0

VARIABLES
  sockets,      \* slot -> the fields of that LocalSocket
  abstract_ns,  \* GetAbstractSocketNamespace(): name -> slot or NULL
  logd_ns,      \* GetLogdSocketNamespace():     name -> slot or NULL
  threads,      \* thread -> the call it is parked in (op = "idle" if none)
  open_fds,     \* fds made by DupLocked that have not been closed
  next_fd,      \* the next fd DupLocked returns
  hist,         \* history of the data path (what was written, read, handed over)
  ret           \* what the call completed by the last action returned

vars == <<sockets, abstract_ns, logd_ns, threads, open_fds, next_fd, hist, ret>>

\* the endpoint slots and the threads of the run
EP == DOMAIN sockets
Threads == DOMAIN threads

(***************************************************************************)
(* Sequences.                                                               *)
(***************************************************************************)
Min(a, b) == IF a < b THEN a ELSE b

Take(s, n) == SubSeq(s, 1, Min(n, Len(s)))

Drop(s, n) == SubSeq(s, Min(n, Len(s)) + 1, Len(s))

IsPrefix(s, t) == Len(s) <= Len(t) /\ SubSeq(t, 1, Len(s)) = s

RECURSIVE SumSeq(_)
SumSeq(s) == IF s = <<>> THEN 0 ELSE Head(s) + SumSeq(Tail(s))

Range(s) == {s[i] : i \in 1..Len(s)}

(***************************************************************************)
(* sockaddr_un.  An address is its sa_family and the bytes of sun_path that *)
(* addrlen covers (addrlen - offsetof(sun_path) of them); byte 0 is NUL.    *)
(***************************************************************************)
Addr(family, path) == [sa_family |-> family, sun_path |-> path]

\* the sun_path values the calls are given
SunPaths == {<<>>, <<0>>, <<0, 1>>, <<1>>, <<1, 0>>}

Addrs == {Addr("AF_UNIX", p) : p \in SunPaths} \cup {Addr("AF_INET", <<1>>)}

ValidateSockaddr(addr) ==
  /\ addr.sa_family = "AF_UNIX"
  /\ Len(addr.sun_path) >= 1

\* strnlen(str, n): the bytes before the first NUL, at most n of them
RECURSIVE strnlen(_, _)
strnlen(str, n) ==
  IF n = 0 \/ str = <<>> \/ Head(str) = 0 THEN 0
  ELSE 1 + strnlen(Tail(str), n - 1)

\* [ok, name]: ok is the bool returned, name is *out_name
ConvertSockaddrToName(addr) ==
  IF addr.sun_path[1] = 0
  THEN [ok |-> FALSE, name |-> <<>>]
  ELSE [ok |-> TRUE,
        name |-> SubSeq(addr.sun_path, 1,
                        strnlen(addr.sun_path, Len(addr.sun_path)))]

ConvertSockaddrToAbstractName(addr) ==
  IF addr.sun_path[1] # 0
  THEN [ok |-> FALSE, name |-> <<>>]
  ELSE [ok |-> TRUE, name |-> SubSeq(addr.sun_path, 2, Len(addr.sun_path))]

\* every name a registry can be asked about
Names == {ConvertSockaddrToName(a).name : a \in {x \in Addrs : ValidateSockaddr(x)}}
         \cup {ConvertSockaddrToAbstractName(a).name :
                 a \in {x \in Addrs : ValidateSockaddr(x)}}

(***************************************************************************)
(* The two name registries (AbstractSocketNamespace, LogdSocketNamespace).  *)
(***************************************************************************)
GetByName(ns, name) == ns[name]

\* Bind(name, stream): [result, errno, ns]
NsBind(ns, name, stream) ==
  IF stream = NULL
  THEN [result |-> 0, errno |-> "OK", ns |-> [ns EXCEPT ![name] = NULL]]
  ELSE IF ns[name] # NULL
  THEN [result |-> -1, errno |-> "EADDRINUSE", ns |-> ns]
  ELSE [result |-> 0, errno |-> "OK", ns |-> [ns EXCEPT ![name] = stream]]

(***************************************************************************)
(* LocalSocket objects.                                                     *)
(***************************************************************************)
SocketTypes == {"SOCK_STREAM", "SOCK_DGRAM", "SOCK_SEQPACKET"}

\* a slot no LocalSocket has been constructed in
NoSocket ==
  [socket_type_ |-> "NONE", stream_dir_ |-> "READ_WRITE",
   connect_state_ |-> "SOCKET_NEW", peer_ |-> NULL, closed |-> FALSE,
   abstract_name_ |-> <<>>, logd_name_ |-> <<>>, logd_target_name_ |-> <<>>,
   connection_backlog_ |-> 0, connection_queue_ |-> <<>>,
   buffer_ |-> <<>>, capacity |-> 0, queue_ |-> <<>>, cmsg_fd_queue_ |-> <<>>,
   my_cred_ |-> [pid |-> 0, uid |-> -1, gid |-> -1],
   peer_cred_ |-> [pid |-> 0, uid |-> -1, gid |-> -1],
   pass_cred_ |-> 0, recv_timeout_ |-> 0]

\* ProcessEmulator::GetPid()/GetUid() at the time slot e is constructed:
\* every endpoint is given credentials of its own
GetPid(e) == 100 + e
GetUid(e) == 200 + e

\* LocalSocket::LocalSocket(oflag, socket_type, stream_dir) in slot e
LocalSocket(e, socket_type, stream_dir) ==
  [NoSocket EXCEPT
     !.socket_type_ = socket_type,
     !.connect_state_ = "SOCKET_NEW",
     !.stream_dir_ = stream_dir,
     !.connection_backlog_ = 0,
     !.pass_cred_ = 0,
     !.capacity = IF socket_type = "SOCK_STREAM" /\ stream_dir # "WRITE_ONLY"
                  THEN RingCapacity ELSE 0,
     !.my_cred_ = [pid |-> GetPid(e), uid |-> GetUid(e), gid |-> GetUid(e)],
     !.peer_cred_ = [pid |-> 0, uid |-> -1, gid |-> -1]]

Exists(S, e) == S[e].socket_type_ # "NONE"

\* a descriptor still refers to e: calls can be made on it
Open(S, e) == Exists(S, e) /\ ~S[e].closed

IsClosed(S, e) == S[e].closed

FreeSlots(S) == {e \in DOMAIN S : ~Exists(S, e)}

LowestFree(S) == CHOOSE e \in FreeSlots(S) : \A f \in FreeSlots(S) : e <= f

\* LocalSocket::set_peer on endpoint self
set_peer(S, self, peer) ==
  [S EXCEPT ![self].peer_ = peer,
            ![self].connect_state_ = "SOCKET_CONNECTED",
            ![self].peer_cred_ = S[peer].my_cred_]

(***************************************************************************)
(* Threads and the VFS condition variable.                                  *)
(***************************************************************************)
Idle == [op |-> "idle", ep |-> NULL, woken |-> FALSE, timed |-> FALSE]

\* a thread inside sys->Wait() / sys->WaitUntil() of call op on endpoint e;
\* timed: the wait has a time limit (WaitUntil with a non-null time_limit)
Parked(op, e, timed) == [op |-> op, ep |-> e, woken |-> FALSE, timed |-> timed]

IdleThreads(T) == {t \in DOMAIN T : T[t].op = "idle"}

\* the thread that makes the next call: idle threads are alike, so it is the
\* first of them.  The model bounds the threads that are parked at one time:
\* when all of them are, a further thread can still make a call that
\* completes without waiting (CanPark is false for it).
Caller(T, t) ==
  IF IdleThreads(T) = {} THEN \A u \in DOMAIN T : t <= u
  ELSE t \in IdleThreads(T) /\ \A u \in IdleThreads(T) : t <= u

CanPark(T, t) == T[t].op = "idle"

\* VirtualFileSystem::Broadcast(): every parked thread is made runnable
Broadcast(T) ==
  [t \in DOMAIN T |-> IF T[t].op = "idle" THEN T[t] ELSE [T[t] EXCEPT !.woken = TRUE]]

(***************************************************************************)
(* What a call returned.                                                    *)
(***************************************************************************)
NoRet == [op |-> "none", ep |-> NULL, rv |-> 0, errno |-> "OK",
          data |-> <<>>, msg_flags |-> {}, fds |-> <<>>, arg |-> <<>>]

Ret(op, e, rv, errno) == [NoRet EXCEPT !.op = op, !.ep = e, !.rv = rv, !.errno = errno]

Fail(op, e, errno) == Ret(op, e, -1, errno)

\* no address: what connected_to holds before a connect has succeeded
NoAddr == [sa_family |-> "NONE", sun_path |-> <<>>]

\* written[e]: the bytes the sendmsg calls that delivered to e reported as
\* written; read[e]: the bytes the recvmsg calls on e returned; offered[e]:
\* how many payload bytes were offered to e; delivered_fds: the fds recvmsg
\* handed to a receiver; connected_to[e]: the address of the last connect on
\* SOCK_DGRAM endpoint e that returned 0
NoHist(n) == [written |-> [e \in 1..n |-> <<>>], read |-> [e \in 1..n |-> <<>>],
              offered |-> [e \in 1..n |-> 0], delivered_fds |-> {},
              connected_to |-> [e \in 1..n |-> NoAddr]]

\* no LocalSocket has been constructed; n endpoint slots, m threads
InitWith(n, m) ==
  /\ sockets = [e \in 1..n |-> NoSocket]
  /\ abstract_ns = [nm \in Names |-> NULL]
  /\ logd_ns = [nm \in Names |-> NULL]
  /\ threads = [t \in 1..m |-> Idle]
  /\ open_fds = {}
  /\ next_fd = 1
  /\ hist = NoHist(n)
  /\ ret = NoRet

(***************************************************************************)
(* socket(), socketpair(): construction.                                    *)
(***************************************************************************)
Socket(socket_type) ==
  /\ FreeSlots(sockets) # {}
  /\ sockets' = [sockets EXCEPT ![LowestFree(sockets)] =
                   LocalSocket(LowestFree(sockets), socket_type, "READ_WRITE")]
  /\ ret' = Ret("socket", LowestFree(sockets), 0, "OK")
  /\ UNCHANGED <<abstract_ns, logd_ns, threads, open_fds, next_fd, hist>>

\* socketpair(): two READ_WRITE endpoints, each set_peer'ed to the other
Socketpair(socket_type) ==
  /\ Cardinality(FreeSlots(sockets)) >= 2
  /\ LET a == LowestFree(sockets)
         S1 == [sockets EXCEPT ![a] = LocalSocket(a, socket_type, "READ_WRITE")]
         b == LowestFree(S1)
         S2 == [S1 EXCEPT ![b] = LocalSocket(b, socket_type, "READ_WRITE")]
     IN /\ sockets' = set_peer(set_peer(S2, a, b), b, a)
        /\ ret' = Ret("socketpair", a, 0, "OK")
  /\ UNCHANGED <<abstract_ns, logd_ns, threads, open_fds, next_fd, hist>>

(***************************************************************************)
(* LocalSocket::OnLastFileRef: the last descriptor of e is released.        *)
(***************************************************************************)
OnLastFileRef(S, e) ==
  LET p == S[e].peer_
      S1 == IF p # NULL
            THEN [[S EXCEPT ![p].peer_ = NULL] EXCEPT ![e].peer_ = NULL]
            ELSE S
  IN [S1 EXCEPT ![e].closed = TRUE]

\* OnLastFileRef broadcasts only when it had a peer to unlink
CloseBroadcasts(S, e) == S[e].peer_ # NULL

\* the registry calls of OnLastFileRef
UnbindOnLastFileRef(ns, name) ==
  IF name # <<>> THEN NsBind(ns, name, NULL).ns ELSE ns

Close(e) ==
  /\ Open(sockets, e)
  /\ sockets' = OnLastFileRef(sockets, e)
  /\ threads' = IF CloseBroadcasts(sockets, e) THEN Broadcast(threads) ELSE threads
  /\ abstract_ns' = UnbindOnLastFileRef(abstract_ns, sockets[e].abstract_name_)
  /\ logd_ns' = UnbindOnLastFileRef(logd_ns, sockets[e].logd_name_)
  /\ ret' = Ret("close", e, 0, "OK")
  /\ UNCHANGED <<open_fds, next_fd, hist>>

(***************************************************************************)
(* LocalSocket::bind                                                        *)
(***************************************************************************)
\* "Trying to bind a second name to a single socket fails."
HasName(s) == s.abstract_name_ # <<>> \/ s.logd_name_ # <<>>

bind(e, addr) ==
  /\ Open(sockets, e)
  /\ LET logd == ConvertSockaddrToName(addr)
         abstract == ConvertSockaddrToAbstractName(addr)
         lr == NsBind(logd_ns, logd.name, e)
         ar == NsBind(abstract_ns, abstract.name, e)
     IN IF ~ValidateSockaddr(addr) \/ HasName(sockets[e])
        THEN /\ ret' = [Fail("bind", e, "EINVAL") EXCEPT !.arg = addr]
             /\ UNCHANGED <<sockets, abstract_ns, logd_ns>>
        ELSE IF logd.ok
        THEN /\ logd_ns' = lr.ns
             /\ sockets' = IF lr.result = 0
                           THEN [sockets EXCEPT ![e].logd_name_ = logd.name]
                           ELSE sockets
             /\ ret' = [Ret("bind", e, lr.result, lr.errno) EXCEPT !.arg = addr]
             /\ UNCHANGED abstract_ns
        ELSE IF abstract.ok
        THEN /\ abstract_ns' = ar.ns
             /\ sockets' = IF ar.result = 0
                           THEN [sockets EXCEPT ![e].abstract_name_ = abstract.name]
                           ELSE sockets
             /\ ret' = [Ret("bind", e, ar.result, ar.errno) EXCEPT !.arg = addr]
             /\ UNCHANGED logd_ns
        ELSE /\ ret' = [Fail("bind", e, "ENOSYS") EXCEPT !.arg = addr]
             /\ UNCHANGED <<sockets, abstract_ns, logd_ns>>
  /\ UNCHANGED <<threads, open_fds, next_fd, hist>>

(***************************************************************************)
(* LocalSocket::listen                                                      *)
(***************************************************************************)
listen(e, backlog) ==
  /\ Open(sockets, e)
  /\ IF sockets[e].socket_type_ = "SOCK_DGRAM"
     THEN /\ ret' = [Fail("listen", e, "EOPNOTSUPP") EXCEPT !.arg = backlog]
          /\ UNCHANGED sockets
     ELSE IF ~HasName(sockets[e])
     THEN /\ ret' = [Fail("listen", e, "EINVAL") EXCEPT !.arg = backlog]
          /\ UNCHANGED sockets
     ELSE /\ sockets' = [sockets EXCEPT ![e].connect_state_ = "SOCKET_LISTENING",
                                        ![e].connection_backlog_ = backlog]
          /\ ret' = [Ret("listen", e, 0, "OK") EXCEPT !.arg = backlog]
  /\ UNCHANGED <<abstract_ns, logd_ns, threads, open_fds, next_fd, hist>>

(***************************************************************************)
(* LocalSocket::connect                                                     *)
(***************************************************************************)
\* the test that refuses a connect because the queue is full
QueueFull(b) == b.connection_backlog_ = Len(b.connection_queue_)

\* bound_socket->HandleConnectLocked(self): [ok, sockets, broadcast]
HandleConnectLocked(S, bound, self) ==
  IF S[bound].socket_type_ \in {"SOCK_STREAM", "SOCK_SEQPACKET"}
  THEN IF S[bound].connect_state_ # "SOCKET_LISTENING" \/ QueueFull(S[bound])
       THEN [ok |-> FALSE, sockets |-> S, broadcast |-> FALSE]
       ELSE [ok |-> TRUE,
             sockets |-> [S EXCEPT ![bound].connection_queue_ = Append(@, self)],
             broadcast |-> Len(S[bound].connection_queue_) + 1 = 1]
  ELSE [ok |-> TRUE, sockets |-> S, broadcast |-> FALSE]

\* the lookup of connect: the endpoint the address names, or NULL
BoundSocket(addr) ==
  IF ConvertSockaddrToName(addr).ok
  THEN GetByName(logd_ns, ConvertSockaddrToName(addr).name)
  ELSE GetByName(abstract_ns, ConvertSockaddrToAbstractName(addr).name)

\* a connect finds any bound endpoint, whatever its socket type
AnyBoundSocket(S, bound, s) == bound = NULL

\* connect refuses when no endpoint has the name or the one that has it is
\* of another socket type
NoBoundSocket(S, bound, s) == bound = NULL \/ S[bound].socket_type_ # s.socket_type_

\* connect() called on e; is_block: O_NONBLOCK is clear in oflag
connect(t, e, addr, is_block) ==
  /\ Open(sockets, e)
  /\ Caller(threads, t)
  /\ LET s == sockets[e]
         bound == BoundSocket(addr)
         h == HandleConnectLocked(sockets, bound, e)
         refused == [Fail("connect", e, "ECONNREFUSED") EXCEPT !.arg = addr]
     IN IF s.connect_state_ \in {"SOCKET_CONNECTED", "SOCKET_LISTENING"}
        THEN /\ ret' = [Fail("connect", e, "EISCONN") EXCEPT !.arg = addr]
             /\ UNCHANGED <<sockets, threads>>
        ELSE IF s.socket_type_ # "SOCK_DGRAM" /\ ~is_block
        THEN /\ ret' = [Fail("connect", e, "ENOSYS") EXCEPT !.arg = addr]
             /\ UNCHANGED <<sockets, threads>>
        ELSE IF ~ValidateSockaddr(addr)
        THEN /\ ret' = [Fail("connect", e, "EINVAL") EXCEPT !.arg = addr]
             /\ UNCHANGED <<sockets, threads>>
        ELSE IF NoBoundSocket(sockets, bound, s)
        THEN /\ ret' = refused
             /\ UNCHANGED <<sockets, threads>>
        ELSE IF ~h.ok
        THEN /\ ret' = refused
             /\ UNCHANGED <<sockets, threads>>
        ELSE IF s.socket_type_ = "SOCK_DGRAM"
        THEN \* WaitForLocalSocketConnect does nothing for SOCK_DGRAM
             /\ sockets' = [h.sockets EXCEPT ![e].logd_target_name_ =
                                               ConvertSockaddrToName(addr).name]
             /\ threads' = IF h.broadcast THEN Broadcast(threads) ELSE threads
             /\ ret' = [Ret("connect", e, 0, "OK") EXCEPT !.arg = addr]
        ELSE \* WaitForLocalSocketConnect: SOCKET_CONNECTING, then sys->Wait()
             /\ CanPark(threads, t)
             /\ sockets' = [h.sockets EXCEPT
                              ![e].logd_target_name_ = ConvertSockaddrToName(addr).name,
                              ![e].connect_state_ = "SOCKET_CONNECTING"]
             /\ threads' = [(IF h.broadcast THEN Broadcast(threads) ELSE threads)
                              EXCEPT ![t] = Parked("connect", e, FALSE)]
             /\ ret' = NoRet
  /\ hist' = IF sockets[e].socket_type_ = "SOCK_DGRAM" /\ ret'.op = "connect"
                 /\ ret'.rv = 0
              THEN [hist EXCEPT !.connected_to[e] = addr]
              ELSE hist
  /\ UNCHANGED <<abstract_ns, logd_ns, open_fds, next_fd>>

\* the loop test of WaitForLocalSocketConnect
ConnectMustWait(s) == s.connect_state_ = "SOCKET_CONNECTING"

\* a thread parked in WaitForLocalSocketConnect runs again
ConnectResume(t) ==
  /\ threads[t].op = "connect"
  /\ threads[t].woken
  /\ IF ConnectMustWait(sockets[threads[t].ep])
     THEN /\ threads' = [threads EXCEPT ![t].woken = FALSE]
          /\ ret' = NoRet
     ELSE /\ threads' = [threads EXCEPT ![t] = Idle]
          /\ ret' = Ret("connect", threads[t].ep, 0, "OK")
  /\ UNCHANGED <<sockets, abstract_ns, logd_ns, open_fds, next_fd, hist>>

(***************************************************************************)
(* LocalSocket::accept                                                      *)
(***************************************************************************)
\* "Skip any queued connects which have since been closed."
RECURSIVE SkipClosed(_, _)
SkipClosed(S, q) ==
  IF q # <<>> /\ IsClosed(S, Head(q)) THEN SkipClosed(S, Tail(q)) ELSE q

\* accept() after WaitForOpenedConnectToAccept has returned, by thread t (which
\* is idle in T); fd_ok: AddFileStreamLocked finds a free descriptor
AcceptTail(S, T, e, fd_ok) ==
  IF IsClosed(S, e)
  THEN /\ sockets' = S
       /\ threads' = T
       /\ ret' = Fail("accept", e, "EBADF")
  ELSE IF S[e].connection_queue_ = <<>>
  THEN /\ sockets' = S
       /\ threads' = T
       /\ ret' = Fail("accept", e, "EAGAIN")
  ELSE IF ~fd_ok \/ FreeSlots(S) = {}
  THEN /\ sockets' = S
       /\ threads' = T
       /\ ret' = Fail("accept", e, "EMFILE")
  ELSE LET server_socket == LowestFree(S)
           client_socket == Head(S[e].connection_queue_)
           S1 == [S EXCEPT ![server_socket] =
                    LocalSocket(server_socket, S[e].socket_type_, "READ_WRITE")]
           S2 == [S1 EXCEPT ![e].connection_queue_ = Tail(@)]
           S3 == set_peer(S2, server_socket, client_socket)
           S4 == set_peer(S3, client_socket, server_socket)
       IN /\ sockets' = S4
          /\ threads' = Broadcast(T)
          /\ ret' = [Ret("accept", e, server_socket, "OK") EXCEPT
                       !.arg = client_socket]

\* accept() called on e
accept(t, e, is_block, fd_ok) ==
  /\ Open(sockets, e)
  /\ Caller(threads, t)
  /\ LET skipped == [sockets EXCEPT ![e].connection_queue_ = SkipClosed(sockets, @)]
     IN IF sockets[e].socket_type_ = "SOCK_DGRAM"
        THEN /\ ret' = Fail("accept", e, "EOPNOTSUPP")
             /\ UNCHANGED <<sockets, threads>>
        ELSE IF sockets[e].connect_state_ # "SOCKET_LISTENING"
        THEN /\ ret' = Fail("accept", e, "EINVAL")
             /\ UNCHANGED <<sockets, threads>>
        ELSE IF ~is_block
        THEN /\ ret' = Fail("accept", e, "ENOSYS")
             /\ UNCHANGED <<sockets, threads>>
        ELSE IF skipped[e].connection_queue_ # <<>>
        THEN AcceptTail(skipped, threads, e, fd_ok)
        ELSE \* sys->WaitUntil(time_limit)
             /\ CanPark(threads, t)
             /\ sockets' = skipped
             /\ threads' = [threads EXCEPT ![t] =
                              Parked("accept", e, sockets[e].recv_timeout_ # 0)]
             /\ ret' = NoRet
  /\ UNCHANGED <<abstract_ns, logd_ns, open_fds, next_fd, hist>>

\* WaitUntil returned false: the loop of WaitForOpenedConnectToAccept runs again
AcceptResume(t, fd_ok) ==
  /\ threads[t].op = "accept"
  /\ threads[t].woken
  /\ LET e == threads[t].ep
         skipped == [sockets EXCEPT ![e].connection_queue_ = SkipClosed(sockets, @)]
     IN IF skipped[e].connection_queue_ # <<>>
        THEN AcceptTail(skipped, [threads EXCEPT ![t] = Idle], e, fd_ok)
        ELSE /\ sockets' = skipped
             /\ threads' = [threads EXCEPT ![t].woken = FALSE]
             /\ ret' = NoRet
  /\ UNCHANGED <<abstract_ns, logd_ns, open_fds, next_fd, hist>>

\* WaitUntil returned true (time_limit passed): the loop ends without another pass
AcceptTimeout(t, fd_ok) ==
  /\ threads[t].op = "accept"
  /\ threads[t].timed
  /\ AcceptTail(sockets, [threads EXCEPT ![t] = Idle], threads[t].ep, fd_ok)
  /\ UNCHANGED <<abstract_ns, logd_ns, open_fds, next_fd, hist>>

(***************************************************************************)
(* LocalSocket::getsockopt                                                  *)
(***************************************************************************)
\* getsockopt(SOL_SOCKET, SO_PEERCRED) with room for a whole ucred: *optval
SoPeerCred(S, e) == S[e].peer_cred_

(***************************************************************************)
(* The environment of LocalSocket.                                          *)
(***************************************************************************)
\* setsockopt(SOL_SOCKET, SO_RCVTIMEO) of the SocketStream base class
SetRecvTimeout(e, timeout) ==
  /\ Open(sockets, e)
  /\ sockets[e].recv_timeout_ # timeout
  /\ sockets' = [sockets EXCEPT ![e].recv_timeout_ = timeout]
  /\ ret' = Ret("setsockopt", e, 0, "OK")
  /\ UNCHANGED <<abstract_ns, logd_ns, threads, open_fds, next_fd, hist>>

(***************************************************************************)
(* Poll events.                                                             *)
(***************************************************************************)
CanRead(S, e) ==
  IF S[e].socket_type_ # "SOCK_DGRAM" /\ S[e].peer_ = NULL THEN TRUE
  ELSE IF S[e].socket_type_ = "SOCK_STREAM" THEN Len(S[e].buffer_) > 0
  ELSE S[e].queue_ # <<>>

\* every endpoint is writable, as if the ring of the peer had no limit
CanWriteUnlimited(S, e) == TRUE

CanWrite(S, e) ==
  IF S[e].peer_ = NULL THEN TRUE
  ELSE IF S[e].socket_type_ = "SOCK_STREAM"
  THEN Len(S[S[e].peer_].buffer_) < S[S[e].peer_].capacity
  ELSE TRUE

GetPollEvents(S, e) ==
  CASE S[e].connect_state_ = "SOCKET_NEW" -> {"POLLOUT", "POLLHUP"}
    [] S[e].connect_state_ = "SOCKET_CONNECTING" -> {}
    [] S[e].connect_state_ = "SOCKET_CONNECTED" ->
         IF S[e].stream_dir_ = "READ_ONLY"
         THEN (IF Len(S[e].buffer_) > 0 THEN {"POLLIN"} ELSE {})
              \cup (IF S[e].peer_ = NULL THEN {"POLLHUP"} ELSE {})
         ELSE IF S[e].stream_dir_ = "WRITE_ONLY"
         THEN IF S[e].peer_ = NULL THEN {"POLLOUT", "POLLERR"}
              ELSE IF Len(S[S[e].peer_].buffer_) < S[S[e].peer_].capacity
              THEN {"POLLOUT"} ELSE {}
         ELSE (IF CanRead(S, e) THEN {"POLLIN"} ELSE {})
              \cup (IF CanWrite(S, e) THEN {"POLLOUT"} ELSE {})
              \cup (IF S[e].socket_type_ # "SOCK_DGRAM" /\ S[e].peer_ = NULL
                    THEN {"POLLHUP"} ELSE {})
    [] S[e].connect_state_ = "SOCKET_LISTENING" ->
         IF S[e].connection_queue_ # <<>> THEN {"POLLIN", "POLLOUT"}
         ELSE {"POLLOUT"}

IsSelectReadReady(S, e) ==
  GetPollEvents(S, e) \cap {"POLLIN", "POLLHUP", "POLLERR"} # {}

IsSelectWriteReady(S, e) ==
  GetPollEvents(S, e) \cap {"POLLOUT", "POLLERR"} # {}

(***************************************************************************)
(* buffer_: the byte ring of a SOCK_STREAM endpoint.                        *)
(***************************************************************************)
\* write(bytes): as many bytes as fit; [buffer, count]
RingWrite(buf, cap, bytes) ==
  LET n == IF cap - Len(buf) < Len(bytes) THEN cap - Len(buf) ELSE Len(bytes)
  IN [buffer |-> buf \o SubSeq(bytes, 1, n), count |-> n]

\* read(dst, n): the first n bytes, or all there are; [data, buffer]
RingRead(buf, n) == [data |-> Take(buf, n), buffer |-> Drop(buf, n)]

(***************************************************************************)
(* The cmsg macros (ILP32: sizeof(cmsghdr) = 12, alignment 4).              *)
(***************************************************************************)
SizeofCmsghdr == 12
SizeofInt == 4
SizeofUcred == 12
CmsgAlignment == 4

CMSG_ALIGN(len) == ((len + CmsgAlignment - 1) \div CmsgAlignment) * CmsgAlignment

CMSG_LEN(len) == CMSG_ALIGN(SizeofCmsghdr) + len

CMSG_SPACE(len) == CMSG_ALIGN(len) + CMSG_ALIGN(SizeofCmsghdr)

(***************************************************************************)
(* LocalSocket::sendmsg / HandleSendmsgLocked                               *)
(***************************************************************************)
RECURSIVE Flatten(_)
Flatten(iov) == IF iov = <<>> THEN <<>> ELSE Head(iov) \o Flatten(Tail(iov))

\* the SOCK_STREAM loop over msg_iov: [buffer, bytes_sent]
RECURSIVE WriteIov(_, _, _)
WriteIov(buf, cap, iov) ==
  IF iov = <<>> THEN [buffer |-> buf, bytes_sent |-> 0]
  ELSE LET w == RingWrite(buf, cap, Head(iov))
           rest == WriteIov(w.buffer, cap, Tail(iov))
       IN [buffer |-> rest.buffer, bytes_sent |-> w.count + rest.bytes_sent]

\* the fds DupLocked returns for n wire fds, the first of them being fd
DupFds(fd, n) == [i \in 1..n |-> fd + i - 1]

\* control messages are processed whether or not any byte was sent
QueuesControlAlways(bytes_sent, nfds) == nfds >= 0

\* "If we did not send any bytes, do not process any control messages either."
\* nfds: the number of fds of the SCM_RIGHTS message, -1 when msg_controllen = 0
QueuesControl(bytes_sent, nfds) == bytes_sent # 0 /\ nfds >= 0

\* HandleSendmsgLocked on the receiving endpoint rcv:
\* [rv, errno, sockets, bytes_sent, dups]
HandleSendmsgLocked(S, rcv, iov, nfds, peer_cred, fd) ==
  LET r == S[rcv]
      attempted == Len(Flatten(iov))
      w == WriteIov(r.buffer_, r.capacity, iov)
      bytes_sent == IF Len(iov) = 0 THEN 0
                    ELSE IF r.socket_type_ = "SOCK_STREAM" THEN w.bytes_sent
                    ELSE attempted
      bytes_attempted == IF Len(iov) = 0 THEN 0 ELSE attempted
      S1 == IF Len(iov) = 0 THEN S
            ELSE IF r.socket_type_ = "SOCK_STREAM"
            THEN [S EXCEPT ![rcv].buffer_ = w.buffer]
            ELSE [S EXCEPT ![rcv].queue_ =
                    Append(@, [content_ |-> Flatten(iov), cred_ |-> peer_cred])]
      dups == IF QueuesControl(bytes_sent, nfds) THEN DupFds(fd, nfds) ELSE <<>>
      S2 == IF QueuesControl(bytes_sent, nfds)
            THEN [S1 EXCEPT ![rcv].cmsg_fd_queue_ = Append(@, dups)]
            ELSE S1
  IN [rv |-> IF bytes_sent = 0 /\ bytes_attempted # 0 THEN -1 ELSE bytes_sent,
      errno |-> IF bytes_sent = 0 /\ bytes_attempted # 0 THEN "EAGAIN" ELSE "OK",
      sockets |-> S2,
      bytes_sent |-> bytes_sent,
      dups |-> dups]

\* the payload of a message with iovecs of the given lengths: bytes are
\* numbered on from `from`, so every byte offered to an endpoint is unlike
\* every other
RECURSIVE Payload(_, _)
Payload(lens, from) ==
  IF lens = <<>> THEN <<>>
  ELSE <<[i \in 1..Head(lens) |-> from + i]>> \o Payload(Tail(lens), from + Head(lens))

\* the payload bytes offered so far, to all endpoints together
TotalOffered == SumSeq(hist.offered)

\* the endpoint sendmsg on e delivers to, or NULL
SendTarget(S, e) ==
  IF S[e].peer_ # NULL THEN S[e].peer_
  ELSE IF S[e].socket_type_ = "SOCK_DGRAM" /\ S[e].logd_target_name_ # <<>>
  THEN GetByName(logd_ns, S[e].logd_target_name_)
  ELSE NULL

\* sendmsg() on e with iovecs of lengths lens and nfds fds of SCM_RIGHTS
sendmsg(e, lens, nfds) ==
  /\ Open(sockets, e)
  /\ LET s == sockets[e]
         rcv == SendTarget(sockets, e)
         iov == Payload(lens, hist.offered[rcv])
         h == HandleSendmsgLocked(sockets, rcv, iov, nfds, s.my_cred_, next_fd)
     IN IF s.stream_dir_ = "READ_ONLY"
        THEN /\ ret' = Fail("sendmsg", e, "EBADF")
             /\ UNCHANGED <<sockets, threads, open_fds, next_fd, hist>>
        ELSE IF s.socket_type_ # "SOCK_DGRAM" /\ s.connect_state_ # "SOCKET_CONNECTED"
        THEN /\ ret' = Fail("sendmsg", e, "EINVAL")
             /\ UNCHANGED <<sockets, threads, open_fds, next_fd, hist>>
        ELSE IF rcv = NULL
        THEN /\ ret' = Fail("sendmsg", e, IF s.socket_type_ = "SOCK_DGRAM"
                                          THEN "ECONNREFUSED" ELSE "ECONNRESET")
             /\ UNCHANGED <<sockets, threads, open_fds, next_fd, hist>>
        ELSE /\ TotalOffered + SumSeq(lens) <= MaxBytes
             /\ next_fd + Len(h.dups) - 1 <= MaxFds
             /\ sockets' = h.sockets
             /\ threads' = IF h.bytes_sent > 0 THEN Broadcast(threads) ELSE threads
             /\ open_fds' = open_fds \cup Range(h.dups)
             /\ next_fd' = next_fd + Len(h.dups)
             /\ hist' = [hist EXCEPT
                           !.offered[rcv] = @ + SumSeq(lens),
                           !.written[rcv] = @ \o Take(Flatten(iov),
                                                      IF h.rv > 0 THEN h.rv ELSE 0)]
             /\ ret' = [Ret("sendmsg", e, h.rv, h.errno) EXCEPT
                          !.data = Flatten(iov), !.fds = h.dups]
  /\ UNCHANGED <<abstract_ns, logd_ns>>

(***************************************************************************)
(* LocalSocket::recvmsg                                                     *)
(***************************************************************************)
\* the loop test of the blocking wait of recvmsg
RecvMustWait(S, e) == S[e].peer_ # NULL /\ ~IsSelectReadReady(S, e)

\* the loop over msg_iov filling the iovecs from the last one to the first
RECURSIVE ReadIovBackwards(_, _)
ReadIovBackwards(buf, caps) ==
  IF caps = <<>> \/ Len(buf) = 0 THEN [data |-> <<>>, buffer |-> buf]
  ELSE LET r == RingRead(buf, caps[Len(caps)])
           rest == ReadIovBackwards(r.buffer, SubSeq(caps, 1, Len(caps) - 1))
       IN [data |-> rest.data \o r.data, buffer |-> rest.buffer]

\* the SOCK_STREAM loop over msg_iov (caps: the iov_len values): [data, buffer]
RECURSIVE ReadIov(_, _)
ReadIov(buf, caps) ==
  IF caps = <<>> \/ Len(buf) = 0 THEN [data |-> <<>>, buffer |-> buf]
  ELSE LET r == RingRead(buf, Head(caps))
           rest == ReadIov(r.buffer, Tail(caps))
       IN [data |-> r.data \o rest.data, buffer |-> rest.buffer]

\* the datagram loop over msg_iov: the bytes copied out of content
RECURSIVE CopyDatagram(_, _)
CopyDatagram(content, caps) ==
  IF caps = <<>> \/ Len(content) = 0 THEN <<>>
  ELSE LET len == Min(Head(caps), Len(content))
       IN SubSeq(content, 1, len)
          \o CopyDatagram(SubSeq(content, len + 1, Len(content)), Tail(caps))

\* the space the code wants for an SCM_RIGHTS message of n fds
RightsSpace(n) == CMSG_SPACE(CMSG_LEN(n * SizeofInt))

\* the loop that closes the fds that do not fit, last ones first: the fds kept
RECURSIVE TrimFds(_, _)
TrimFds(fds, msg_controllen) ==
  IF RightsSpace(Len(fds)) > msg_controllen /\ fds # <<>>
  THEN TrimFds(SubSeq(fds, 1, Len(fds) - 1), msg_controllen)
  ELSE fds

\* the fd list that was looked at stays at the front of the queue
KeepFdList(q) == q

\* cmsg_fd_queue_.pop_front(): the fd list that was looked at leaves the queue
PopFdList(q) == Tail(q)

\* recvmsg() from "msg->msg_flags = 0" on, by a thread that is idle in T
RecvTail(S, T, e, caps, msg_controllen) ==
  LET s == S[e]
      stream == s.socket_type_ = "SOCK_STREAM"
      rd == ReadIov(s.buffer_, caps)
      pops == ~stream /\ s.queue_ # <<>>
      content == IF pops THEN Head(s.queue_).content_ ELSE <<>>
      data == IF stream THEN rd.data ELSE CopyDatagram(content, caps)
      bytes_read == Len(data)
      trunc == pops /\ Len(content) - Len(data) > 0
      cred == IF stream \/ ~pops THEN s.peer_cred_ ELSE Head(s.queue_).cred_
      S1 == IF stream THEN [S EXCEPT ![e].buffer_ = rd.buffer]
            ELSE IF pops THEN [S EXCEPT ![e].queue_ = Tail(@)]
            ELSE S
      ctrl == bytes_read > 0 /\ s.cmsg_fd_queue_ # <<>>
      fds == IF ctrl THEN Head(s.cmsg_fd_queue_) ELSE <<>>
      kept == TrimFds(fds, msg_controllen)
      fits == ctrl /\ ~(RightsSpace(Len(kept)) > msg_controllen)
      rights_len == IF fits THEN RightsSpace(Len(kept)) ELSE 0
      creds == bytes_read > 0 /\ s.pass_cred_ # 0
               /\ CMSG_SPACE(SizeofUcred) + rights_len <= msg_controllen
      S2 == IF ctrl THEN [S1 EXCEPT ![e].cmsg_fd_queue_ = PopFdList(@)] ELSE S1
      flags == (IF trunc THEN {"MSG_TRUNC"} ELSE {})
               \cup (IF ctrl /\ Len(kept) < Len(fds) THEN {"MSG_CTRUNC"} ELSE {})
      controllen_out == IF bytes_read <= 0 THEN 0
                        ELSE rights_len + (IF creds THEN CMSG_LEN(SizeofUcred) ELSE 0)
  IN /\ sockets' = S2
     /\ threads' = T
     /\ open_fds' = open_fds \ (Range(fds) \ Range(kept))
     /\ hist' = [hist EXCEPT !.read[e] = @ \o data,
                             !.delivered_fds = @ \cup (IF fits THEN Range(kept) ELSE {})]
     /\ ret' = [NoRet EXCEPT
                  !.op = "recvmsg", !.ep = e,
                  !.rv = IF bytes_read > 0 THEN bytes_read
                         ELSE IF s.peer_ = NULL /\ s.socket_type_ # "SOCK_DGRAM" THEN 0
                         ELSE -1,
                  !.errno = IF bytes_read > 0
                               \/ (s.peer_ = NULL /\ s.socket_type_ # "SOCK_DGRAM")
                            THEN "OK" ELSE "EAGAIN",
                  !.data = data, !.msg_flags = flags,
                  !.fds = IF fits THEN kept ELSE <<>>,
                  !.arg = [cred |-> IF creds THEN <<cred>> ELSE <<>>,
                           msg_controllen |-> controllen_out]]

\* recvmsg() called on e; caps: iov_len of each iovec; dontwait: MSG_DONTWAIT
recvmsg(t, e, caps, msg_controllen, dontwait, is_block) ==
  /\ Open(sockets, e)
  /\ Caller(threads, t)
  /\ IF sockets[e].stream_dir_ = "WRITE_ONLY"
     THEN /\ ret' = Fail("recvmsg", e, "EBADF")
          /\ UNCHANGED <<sockets, threads, open_fds, hist>>
     ELSE IF sockets[e].socket_type_ # "SOCK_DGRAM"
             /\ sockets[e].connect_state_ # "SOCKET_CONNECTED"
     THEN /\ ret' = Fail("recvmsg", e, "EINVAL")
          /\ UNCHANGED <<sockets, threads, open_fds, hist>>
     ELSE IF is_block /\ ~dontwait /\ RecvMustWait(sockets, e)
     THEN \* sys->Wait()
          /\ CanPark(threads, t)
          /\ threads' = [threads EXCEPT ![t] = Parked("recvmsg", e, FALSE)]
          /\ ret' = NoRet
          /\ UNCHANGED <<sockets, open_fds, hist>>
     ELSE RecvTail(sockets, threads, e, caps, msg_controllen)
  /\ UNCHANGED <<abstract_ns, logd_ns, next_fd>>

\* a thread parked in the wait loop of recvmsg runs again.  The msghdr of
\* the call is not looked at before the wait ends, so its iov_len values and
\* msg_controllen are chosen here.
RecvResume(t, caps, msg_controllen) ==
  /\ threads[t].op = "recvmsg"
  /\ threads[t].woken
  /\ IF RecvMustWait(sockets, threads[t].ep)
     THEN /\ threads' = [threads EXCEPT ![t].woken = FALSE]
          /\ ret' = NoRet
          /\ UNCHANGED <<sockets, open_fds, hist>>
     ELSE RecvTail(sockets, [threads EXCEPT ![t] = Idle], threads[t].ep,
                   caps, msg_controllen)
  /\ UNCHANGED <<abstract_ns, logd_ns, next_fd>>

\* setsockopt(SOL_SOCKET, SO_PASSCRED)
SetPassCred(e, v) ==
  /\ Open(sockets, e)
  /\ sockets[e].pass_cred_ # v
  /\ sockets' = [sockets EXCEPT ![e].pass_cred_ = v]
  /\ ret' = Ret("setsockopt", e, 0, "OK")
  /\ UNCHANGED <<abstract_ns, logd_ns, threads, open_fds, next_fd, hist>>

(***************************************************************************)
(* Inputs.                                                                  *)
(***************************************************************************)
\* the backlog values passed to listen(int backlog)
Backlogs == 0..MaxBacklog

\* the addresses of the rendezvous runs: one abstract name, one pathname
ConnAddrs == {Addr("AF_UNIX", <<0, 1>>)}

\* msg_controllen values of a recvmsg
ControlLens == {0, 28, 32}

\* fds of the SCM_RIGHTS message of a sendmsg; -1: no control data
NFds == {-1, MaxFds}

(***************************************************************************)
(* Specifications.                                                          *)
(***************************************************************************)
\* rendezvous: socket, bind, listen, connect, accept, close
Init == InitWith(ConnEP, ConnThreads)

Next ==
  \/ \E ty \in {"SOCK_STREAM", "SOCK_SEQPACKET"} :
       FreeSlots(sockets) \cap 1..ConnSockets # {} /\ Socket(ty)
  \/ \E e \in EP, a \in ConnAddrs : bind(e, a)
  \/ \E e \in EP : listen(e, MaxBacklog)
  \/ \E t \in Threads, e \in EP, a \in ConnAddrs, blk \in BOOLEAN : connect(t, e, a, blk)
  \/ \E t \in Threads : ConnectResume(t)
  \/ \E t \in Threads, e \in EP, blk, ok \in BOOLEAN : accept(t, e, blk, ok)
  \/ \E t \in Threads, ok \in BOOLEAN : AcceptResume(t, ok)
  \/ \E e \in EP : Close(e)

Spec == Init /\ [][Next]_vars

\* backlog: one listener that calls listen() again and again, and clients
\* that each call connect once
InitBacklog == InitWith(BacklogEP, ConnThreads)

NextBacklog ==
  \/ FreeSlots(sockets) \cap 1..BacklogSockets # {} /\ Socket("SOCK_STREAM")
  \/ \E a \in ConnAddrs : bind(1, a)
  \/ \E b \in Backlogs : listen(1, b)
  \/ \E t \in Threads, e \in EP, a \in ConnAddrs :
       sockets[e].connect_state_ = "SOCKET_NEW" /\ connect(t, e, a, TRUE)
  \/ \E t \in Threads : ConnectResume(t)
  \/ \E t \in Threads : accept(t, 1, TRUE, TRUE)
  \/ \E t \in Threads : AcceptResume(t, TRUE)

SpecBacklog == InitBacklog /\ [][NextBacklog]_vars

\* refused connects: stream and seqpacket endpoints, names of both registries
RefuseAddrs == {Addr("AF_UNIX", <<0, 1>>), Addr("AF_UNIX", <<1>>)}

InitRefuse == InitWith(RefuseEP, RefuseThreads)

NextRefuse ==
  \/ \E ty \in {"SOCK_STREAM", "SOCK_SEQPACKET"} : Socket(ty)
  \/ \E e \in EP, a \in RefuseAddrs : bind(e, a)
  \/ \E e \in EP : listen(e, 1)
  \/ \E t \in Threads, e \in EP, a \in RefuseAddrs : connect(t, e, a, TRUE)
  \/ \E e \in EP : Close(e)

SpecRefuse == InitRefuse /\ [][NextRefuse]_vars

\* a connected stream pair: sendmsg and recvmsg in both directions, close
InitStream == InitWith(PairEP, DataThreads)

\* iov_len values of the stream runs: none, one or two iovecs, one of them empty
StreamIovs == {<<>>, <<1>>, <<2>>, <<1, 1>>, <<0, 2>>}

NextStream ==
  \/ Socketpair("SOCK_STREAM")
  \/ \E e \in EP, lens \in StreamIovs : sendmsg(e, lens, -1)
  \/ \E t \in Threads, e \in EP, caps \in StreamIovs, dontwait \in BOOLEAN :
       recvmsg(t, e, caps, 0, dontwait, TRUE)
  \/ \E t \in Threads, caps \in StreamIovs : RecvResume(t, caps, 0)
  \/ \E e \in EP : Close(e)

SpecStream == InitStream /\ [][NextStream]_vars

\* a connected datagram or seqpacket pair: messages with and without fds
InitDgram == InitWith(PairEP, DataThreads)

\* iov_len values of the messages sent in the datagram runs
DgramLens == {<<1>>, <<2>>, <<1, 1>>}

\* iov_len values of the buffers received into: no room, one, two bytes
DgramCaps == {<<>>, <<1>>, <<2>>}

NextDgram ==
  \/ \E ty \in {"SOCK_DGRAM", "SOCK_SEQPACKET"} : Socketpair(ty)
  \/ \E e \in EP, lens \in DgramLens, nfds \in NFds : sendmsg(e, lens, nfds)
  \/ \E t \in Threads, e \in EP, caps \in DgramCaps, cl \in ControlLens,
          dontwait \in BOOLEAN : recvmsg(t, e, caps, cl, dontwait, TRUE)
  \/ \E t \in Threads, caps \in DgramCaps, cl \in ControlLens : RecvResume(t, caps, cl)
  \/ \E e \in EP : Close(e)

SpecDgram == InitDgram /\ [][NextDgram]_vars

\* half-close: a stream or seqpacket pair one end of which is closed, while
\* the other goes on calling bind, listen, sendmsg and recvmsg
InitHalf == InitWith(PairEP, DataThreads)

\* iov_len values of the half-close runs: every buffer has room for a byte
HalfIovs == {<<1>>, <<2>>, <<1, 1>>}

NextHalf ==
  \/ \E ty \in {"SOCK_STREAM", "SOCK_SEQPACKET"} : Socketpair(ty)
  \/ \E e \in EP, a \in ConnAddrs : bind(e, a)
  \/ \E e \in EP : listen(e, MaxBacklog)
  \/ \E e \in EP, lens \in HalfIovs : sendmsg(e, lens, -1)
  \/ \E t \in Threads, e \in EP, caps \in HalfIovs, dontwait \in BOOLEAN :
       recvmsg(t, e, caps, 0, dontwait, TRUE)
  \/ \E t \in Threads, caps \in HalfIovs : RecvResume(t, caps, 0)
  \/ \E e \in EP : Close(e)

SpecHalf == InitHalf /\ [][NextHalf]_vars

\* binding: endpoints of every type, every address, close
InitBind == InitWith(RefuseEP, RefuseThreads)

NextBind ==
  \/ \E ty \in SocketTypes : Socket(ty)
  \/ \E e \in EP, a \in Addrs : bind(e, a)
  \/ \E e \in EP : Close(e)

SpecBind == InitBind /\ [][NextBind]_vars

\* blocking calls under fair scheduling: a woken thread runs again, and a
\* wait that has a time limit ends when nothing else ends it.  recv_timeout_
\* is set before the calls that wait on the endpoint are made.
InitBlock == InitWith(BlockEP, BlockThreads)

NextBlock ==
  \/ Socket("SOCK_STREAM")
  \/ Socketpair("SOCK_STREAM")
  \/ \E e \in EP, a \in ConnAddrs : bind(e, a)
  \/ \E e \in EP : listen(e, 1)
  \/ \E e \in EP : (\A t \in Threads : threads[t].ep # e) /\ SetRecvTimeout(e, 1)
  \/ \E t \in Threads, e \in EP, a \in ConnAddrs : connect(t, e, a, TRUE)
  \/ \E t \in Threads : ConnectResume(t)
  \/ \E t \in Threads, e \in EP : accept(t, e, TRUE, TRUE)
  \/ \E t \in Threads : AcceptResume(t, TRUE)
  \/ \E t \in Threads : AcceptTimeout(t, TRUE)
  \/ \E t \in Threads, e \in EP : recvmsg(t, e, <<1>>, 0, FALSE, TRUE)
  \/ \E t \in Threads : RecvResume(t, <<1>>, 0)
  \/ \E e \in EP : Close(e)

FairBlock ==
  \A t \in 1..BlockThreads :
    /\ WF_vars(ConnectResume(t))
    /\ WF_vars(AcceptResume(t, TRUE))
    /\ WF_vars(AcceptTimeout(t, TRUE))
    /\ WF_vars(RecvResume(t, <<1>>, 0))

SpecBlock == InitBlock /\ [][NextBlock]_vars /\ FairBlock

\* listening: endpoints bound to names of their own that call listen and
\* connect in any order, and accept
InitListen == InitWith(BlockEP, ConnThreads)

NextListen ==
  \/ \E ty \in {"SOCK_STREAM", "SOCK_SEQPACKET"} :
       FreeSlots(sockets) \cap 1..ConnSockets # {} /\ Socket(ty)
  \/ \E e \in EP, a \in RefuseAddrs : bind(e, a)
  \/ \E e \in EP : listen(e, 1)
  \/ \E t \in Threads, e \in EP, a \in RefuseAddrs : connect(t, e, a, TRUE)
  \/ \E t \in Threads : ConnectResume(t)
  \/ \E t \in Threads, e \in EP : accept(t, e, TRUE, TRUE)
  \/ \E t \in Threads : AcceptResume(t, TRUE)
  \/ \E e \in EP : Close(e)

SpecListen == InitListen /\ [][NextListen]_vars

\* datagram endpoints made by socket() and by socketpair(): bind, connect to
\* a name, send to the peer or to the name, receive
InitLogd == InitWith(PairEP, DataThreads)

NextLogd ==
  \/ Socket("SOCK_DGRAM")
  \/ Socketpair("SOCK_DGRAM")
  \/ \E e \in EP, a \in RefuseAddrs : bind(e, a)
  \/ \E t \in Threads, e \in EP, a \in RefuseAddrs, blk \in BOOLEAN : connect(t, e, a, blk)
  \/ \E e \in EP : sendmsg(e, <<1>>, -1)
  \/ \E t \in Threads, e \in EP : recvmsg(t, e, <<1>>, 0, FALSE, TRUE)
  \/ \E t \in Threads : RecvResume(t, <<1>>, 0)
  \/ \E e \in EP : Close(e)

SpecLogd == InitLogd /\ [][NextLogd]_vars

\* polling: endpoints in every connect state, with and without data to read
\* and room to write
InitPoll == InitWith(BlockEP, DataThreads)

NextPoll ==
  \/ FreeSlots(sockets) \cap 1..ConnSockets # {} /\ Socket("SOCK_STREAM")
  \/ \E ty \in SocketTypes : Socketpair(ty)
  \/ \E e \in EP, a \in ConnAddrs : bind(e, a)
  \/ \E e \in EP : listen(e, 1)
  \/ \E t \in Threads, e \in EP, a \in ConnAddrs : connect(t, e, a, TRUE)
  \/ \E t \in Threads : ConnectResume(t)
  \/ \E t \in Threads, e \in EP : accept(t, e, TRUE, TRUE)
  \/ \E t \in Threads : AcceptResume(t, TRUE)
  \/ \E e \in EP : sendmsg(e, <<2>>, -1)
  \/ \E t \in Threads, e \in EP : recvmsg(t, e, <<2>>, 0, FALSE, TRUE)
  \/ \E t \in Threads : RecvResume(t, <<2>>, 0)
  \/ \E e \in EP : Close(e)

SpecPoll == InitPoll /\ [][NextPoll]_vars

\* passing fds: a stream or datagram pair, one-byte messages that carry no
\* SCM_RIGHTS message or one with none, one or more fds, received with and
\* without room for the payload and for the fds
InitRights == InitWith(PairEP, DataThreads)

\* fds of the SCM_RIGHTS message of a sendmsg; -1: no control data
RightsNFds == -1..MaxFds

\* msg_controllen of a recvmsg: no room, room for the header, for one fd, for two
RightsControlLens == {0, 24, 28, 32}

\* iov_len values of a recvmsg: no room, room for the message
RightsCaps == {<<>>, <<1>>}

NextRights ==
  \/ \E ty \in {"SOCK_STREAM", "SOCK_DGRAM"} : Socketpair(ty)
  \/ \E e \in EP, nfds \in RightsNFds : sendmsg(e, <<1>>, nfds)
  \/ \E t \in Threads, e \in EP, caps \in RightsCaps, cl \in RightsControlLens :
       recvmsg(t, e, caps, cl, FALSE, TRUE)
  \/ \E t \in Threads, caps \in RightsCaps, cl \in RightsControlLens :
       RecvResume(t, caps, cl)
  \/ \E e \in EP : Close(e)

SpecRights == InitRights /\ [][NextRights]_vars

\* control data and payload: a stream or datagram pair; messages of two bytes
\* without control data, and messages of no iovec, of an empty iovec and of
\* one byte that each carry an SCM_RIGHTS message with one fd
InitCtrl == InitWith(PairEP, DataThreads)

\* iov_len values of the messages that carry an fd
CtrlLens == {<<>>, <<0>>, <<1>>}

\* the queue_ the sendmsg on e appends to holds fewer than MaxQueued datagrams
QueueRoom(e) ==
  IF SendTarget(sockets, e) = NULL THEN TRUE
  ELSE Len(sockets[SendTarget(sockets, e)].queue_) < MaxQueued

NextCtrl ==
  \/ \E ty \in {"SOCK_STREAM", "SOCK_DGRAM"} : Socketpair(ty)
  \/ \E e \in EP : sendmsg(e, <<2>>, -1)
  \/ \E e \in EP, lens \in CtrlLens : QueueRoom(e) /\ sendmsg(e, lens, 1)
  \/ \E t \in Threads, e \in EP : recvmsg(t, e, <<2>>, 28, FALSE, TRUE)
  \/ \E t \in Threads : RecvResume(t, <<2>>, 28)
  \/ \E e \in EP : Close(e)

SpecCtrl == InitCtrl /\ [][NextCtrl]_vars

\* accepting: one listener, with and without a recv_timeout_, clients that
\* each call connect once and may be closed while they are queued, and accepts
\* that find a free descriptor or none
InitAccept == InitWith(BlockEP, ConnThreads)

NextAccept ==
  \/ FreeSlots(sockets) \cap 1..ConnSockets # {} /\ Socket("SOCK_STREAM")
  \/ \E a \in ConnAddrs : bind(1, a)
  \/ listen(1, 1)
  \/ (\A t \in Threads : threads[t].ep # 1) /\ SetRecvTimeout(1, 1)
  \/ \E t \in Threads, e \in EP, a \in ConnAddrs :
       sockets[e].connect_state_ = "SOCKET_NEW" /\ connect(t, e, a, TRUE)
  \/ \E t \in Threads : ConnectResume(t)
  \/ \E t \in Threads, ok \in BOOLEAN : accept(t, 1, TRUE, ok)
  \/ \E t \in Threads, ok \in BOOLEAN : AcceptResume(t, ok)
  \/ \E t \in Threads, ok \in BOOLEAN : AcceptTimeout(t, ok)
  \/ \E e \in EP : Close(e)

SpecAccept == InitAccept /\ [][NextAccept]_vars

\* connecting under fair scheduling: endpoints that bind, listen and connect
\* in any order, also while a connect on them waits, and accepts; a woken
\* thread runs again
InitPairing == InitWith(ConnEP, ConnThreads)

NextPairing ==
  \/ FreeSlots(sockets) \cap 1..BacklogSockets # {} /\ Socket("SOCK_STREAM")
  \/ \E e \in EP, a \in RefuseAddrs : bind(e, a)
  \/ \E e \in EP : listen(e, 1)
  \/ \E t \in Threads, e \in EP, a \in RefuseAddrs : connect(t, e, a, TRUE)
  \/ \E t \in Threads : ConnectResume(t)
  \/ \E t \in Threads, e \in EP : accept(t, e, TRUE, TRUE)
  \/ \E t \in Threads : AcceptResume(t, TRUE)

FairPairing ==
  \A t \in 1..ConnThreads :
    /\ WF_vars(ConnectResume(t))
    /\ WF_vars(AcceptResume(t, TRUE))

SpecPairing == InitPairing /\ [][NextPairing]_vars /\ FairPairing

\* messages and their fds: a datagram or seqpacket pair; the messages without
\* control data have one byte, the messages that carry an SCM_RIGHTS message
\* with one fd have two bytes, and every recvmsg has room for both
InitMsg == InitWith(PairEP, DataThreads)

NextMsg ==
  \/ \E ty \in {"SOCK_DGRAM", "SOCK_SEQPACKET"} : Socketpair(ty)
  \/ \E e \in EP : sendmsg(e, <<1>>, -1)
  \/ \E e \in EP : sendmsg(e, <<2>>, 1)
  \/ \E t \in Threads, e \in EP : recvmsg(t, e, <<2>>, 28, FALSE, TRUE)
  \/ \E t \in Threads : RecvResume(t, <<2>>, 28)
  \/ \E e \in EP : Close(e)

SpecMsg == InitMsg /\ [][NextMsg]_vars

\* blocked readers under fair scheduling: a stream or datagram pair, threads
\* that wait in recvmsg on the same endpoint or on both, one-byte messages,
\* close; a woken thread runs again
InitWake == InitWith(PairEP, ConnThreads)

NextWake ==
  \/ \E ty \in {"SOCK_STREAM", "SOCK_DGRAM"} : Socketpair(ty)
  \/ \E e \in EP : sendmsg(e, <<1>>, -1)
  \/ \E t \in Threads, e \in EP : recvmsg(t, e, <<1>>, 0, FALSE, TRUE)
  \/ \E t \in Threads : RecvResume(t, <<1>>, 0)
  \/ \E e \in EP : Close(e)

FairWake == \A t \in 1..ConnThreads : WF_vars(RecvResume(t, <<1>>, 0))

SpecWake == InitWake /\ [][NextWake]_vars /\ FairWake

(***************************************************************************)
(* Properties.                                                              *)
(***************************************************************************)
\* C1: peer symmetry.  Every endpoint that is SOCKET_CONNECTED and has a
\* peer is the peer of its peer.
PeerSymmetry ==
  \A e \in EP :
    (Exists(sockets, e) /\ sockets[e].connect_state_ = "SOCKET_CONNECTED"
       /\ sockets[e].peer_ # NULL)
    => sockets[sockets[e].peer_].peer_ = e

\* C8: backlog bound.  A connect enqueues the caller on the connection queue
\* of a listener only when the queue holds fewer entries than the backlog
\* given to listen(), so the queue never grows beyond the backlog.
BacklogBound ==
  [][\A e \in EP :
       Len(sockets'[e].connection_queue_) > Len(sockets[e].connection_queue_)
       => Len(sockets[e].connection_queue_) < sockets[e].connection_backlog_]_vars

\* C9: a rendezvous failure leaves no trace.  A blocking connect of a stream
\* or seqpacket endpoint in SOCKET_NEW to a valid address that names nothing,
\* or an endpoint of another socket type, or an endpoint that is not
\* SOCKET_LISTENING, returns -1 with ECONNREFUSED, leaves the caller in
\* SOCKET_NEW without a peer, changes no connection queue and parks no thread.
RendezvousFails(e, addr) ==
  /\ Open(sockets, e)
  /\ sockets[e].socket_type_ \in {"SOCK_STREAM", "SOCK_SEQPACKET"}
  /\ sockets[e].connect_state_ = "SOCKET_NEW"
  /\ ValidateSockaddr(addr)
  /\ \/ BoundSocket(addr) = NULL
     \/ sockets[BoundSocket(addr)].socket_type_ # sockets[e].socket_type_
     \/ sockets[BoundSocket(addr)].connect_state_ # "SOCKET_LISTENING"

RefusedConnectLeavesNoTrace ==
  [][\A t \in Threads, e \in EP, a \in RefuseAddrs :
       (RendezvousFails(e, a) /\ connect(t, e, a, TRUE))
       => /\ ret'.op = "connect" /\ ret'.ep = e
          /\ ret'.rv = -1 /\ ret'.errno = "ECONNREFUSED"
          /\ sockets'[e].connect_state_ = "SOCKET_NEW"
          /\ sockets'[e].peer_ = NULL
          /\ \A f \in EP : sockets'[f].connection_queue_ = sockets[f].connection_queue_
          /\ sockets' = sockets
          /\ threads' = threads]_vars

\* a connect was refused by a bound endpoint that is not listening
RefusedByNonListener ==
  /\ ret.op = "connect" /\ ret.errno = "ECONNREFUSED"
  /\ RendezvousFails(ret.ep, ret.arg)
  /\ BoundSocket(ret.arg) \notin {NULL, ret.ep}
  /\ sockets[BoundSocket(ret.arg)].socket_type_ = sockets[ret.ep].socket_type_

\* C2: stream ordering.  On a SOCK_STREAM endpoint the bytes the reads have
\* returned are a prefix of the bytes reported as written to it, and the
\* bytes written but not yet read are the content of its buffer, in order:
\* no byte is lost, duplicated or reordered.
StreamOrdering ==
  \A e \in EP :
    sockets[e].socket_type_ = "SOCK_STREAM"
    => /\ IsPrefix(hist.read[e], hist.written[e])
       /\ hist.read[e] \o sockets[e].buffer_ = hist.written[e]

\* one read has returned the bytes of two writes, the second of which was cut
\* short by the full buffer
StreamReadAcrossWrites ==
  /\ ret.op = "recvmsg" /\ ret.data = <<1, 2>>
  /\ sockets[ret.ep].socket_type_ = "SOCK_STREAM"
  /\ hist.written[ret.ep] = <<1, 2>>
  /\ hist.offered[ret.ep] = 3

\* C3: datagram records.  A datagram with a payload of at least one byte
\* leaves queue_ only by a recvmsg on its endpoint that returns its bytes (cut
\* to the capacity of the iovecs) as one record, and that recvmsg removes
\* exactly this one datagram, the oldest.
DatagramRecords ==
  [][\A e \in EP :
       (/\ Len(sockets'[e].queue_) < Len(sockets[e].queue_)
        /\ Len(Head(sockets[e].queue_).content_) >= 1)
       => /\ sockets'[e].queue_ = Tail(sockets[e].queue_)
          /\ ret'.op = "recvmsg" /\ ret'.ep = e
          /\ ret'.rv >= 1
          /\ ret'.rv = Len(ret'.data)
          /\ IsPrefix(ret'.data, Head(sockets[e].queue_).content_)]_vars

\* the fds held by the cmsg_fd_queue_ of e
QueuedFds(e) == UNION {Range(sockets[e].cmsg_fd_queue_[i]) :
                         i \in 1..Len(sockets[e].cmsg_fd_queue_)}

\* C4: fds of SCM_RIGHTS are never leaked.  Once the last reference of an
\* endpoint is released, no fd that sendmsg duplicated into its cmsg_fd_queue_
\* is still open.
NoFdLeaked == \A e \in EP : IsClosed(sockets, e) => QueuedFds(e) \cap open_fds = {}

\* e is the surviving endpoint of a stream or seqpacket pair: it was paired
\* (set_peer has stamped its peer_cred_) and its peer has been released
Survivor(e) ==
  /\ Open(sockets, e)
  /\ sockets[e].socket_type_ \in {"SOCK_STREAM", "SOCK_SEQPACKET"}
  /\ sockets[e].peer_ = NULL
  /\ sockets[e].peer_cred_.pid # 0

\* the bytes the next recvmsg on e can return
Buffered(e) ==
  IF sockets[e].socket_type_ = "SOCK_STREAM" THEN sockets[e].buffer_
  ELSE IF sockets[e].queue_ = <<>> THEN <<>>
  ELSE Head(sockets[e].queue_).content_

\* C7: half-close.  On the surviving endpoint of a stream or seqpacket pair
\* every recvmsg returns bytes still buffered for it while there are any and
\* 0 once there are none, no recvmsg blocks, and every sendmsg returns -1
\* with ECONNRESET.
HalfClose ==
  [][\A e \in EP :
       Survivor(e)
       => /\ (ret'.op = "sendmsg" /\ ret'.ep = e)
               => (ret'.rv = -1 /\ ret'.errno = "ECONNRESET")
          /\ (ret'.op = "recvmsg" /\ ret'.ep = e)
               => IF Buffered(e) # <<>>
                  THEN /\ ret'.rv >= 1 /\ ret'.rv = Len(ret'.data)
                       /\ IsPrefix(ret'.data, Buffered(e))
                  ELSE ret'.rv = 0
          /\ \A t \in Threads :
               (threads'[t].op = "recvmsg" /\ threads'[t].ep = e)
               => threads[t].op = "recvmsg"]_vars

\* a registry maps a name to e: a bind on e has succeeded
Registered(e) ==
  \E nm \in Names : GetByName(abstract_ns, nm) = e \/ GetByName(logd_ns, nm) = e

\* C10: bind succeeds at most once.  A bind on an endpoint that a registry
\* already maps a name to fails with EINVAL and changes neither registry.
BindOnce ==
  [][\A e \in EP :
       (Registered(e) /\ ret'.op = "bind" /\ ret'.ep = e)
       => /\ ret'.rv = -1 /\ ret'.errno = "EINVAL"
          /\ UNCHANGED <<abstract_ns, logd_ns>>]_vars

\* C5: close wakes blocked callers.  A thread that is blocked in accept,
\* recvmsg or connect on an endpoint whose last reference has been released
\* is eventually woken, and its call returns -1 with EBADF.
CloseWakesBlocked ==
  \A t \in 1..BlockThreads, e \in 1..BlockEP :
    (threads[t].op # "idle" /\ threads[t].ep = e /\ IsClosed(sockets, e))
    ~> (ret.ep = e /\ ret.rv = -1 /\ ret.errno = "EBADF")

\* C6: recv_timeout bounds both blocking waits.  A thread that is blocked in
\* accept or in recvmsg on an endpoint that has a recv_timeout eventually
\* returns, whether or not a connection, data or a peer close arrives.
TimeoutBoundsWaits ==
  \A t \in 1..BlockThreads, e \in 1..BlockEP :
    (threads[t].op \in {"accept", "recvmsg"} /\ threads[t].ep = e
       /\ sockets[e].recv_timeout_ # 0)
    ~> (threads[t].op = "idle")

\* C11: name release.  Once the last reference of an endpoint has been
\* released, neither registry maps any name to it, whatever names it was
\* successfully bound to.
NameRelease == \A e \in EP : IsClosed(sockets, e) => ~Registered(e)

\* C12: SOCKET_CONNECTED is absorbing.  An endpoint that is SOCKET_CONNECTED
\* is still SOCKET_CONNECTED after every operation, on it or on another
\* endpoint; the release of its peer only clears peer_.
ConnectedIsAbsorbing ==
  [][\A e \in EP :
       (Exists(sockets, e) /\ sockets[e].connect_state_ = "SOCKET_CONNECTED")
       => sockets'[e].connect_state_ = "SOCKET_CONNECTED"]_vars

\* set_peer has been applied to e: it has stamped peer_cred_ with the
\* credentials of an endpoint
WasPaired(e) == Exists(sockets, e) /\ sockets[e].peer_cred_.pid # 0

\* C13: a peer link is never re-established.  Once set_peer has been applied
\* to a stream or seqpacket endpoint, the only later change of its peer_ is
\* to NULL: set_peer is applied to an endpoint at most once.
PeerNeverReestablished ==
  [][\A e \in EP :
       (WasPaired(e) /\ sockets[e].socket_type_ \in {"SOCK_STREAM", "SOCK_SEQPACKET"})
       => sockets'[e].peer_ \in {sockets[e].peer_, NULL}]_vars

\* C14: SOCKET_LISTENING is terminal.  An endpoint that is SOCKET_LISTENING
\* is still SOCKET_LISTENING after every operation, on it or on another
\* endpoint: accept pairs only the endpoints it makes and the queued clients.
ListeningIsTerminal ==
  [][\A e \in EP :
       (Exists(sockets, e) /\ sockets[e].connect_state_ = "SOCKET_LISTENING")
       => sockets'[e].connect_state_ = "SOCKET_LISTENING"]_vars

\* C15: SOCK_DGRAM endpoints are always SOCKET_CONNECTED.  A SOCK_DGRAM
\* endpoint is SOCKET_CONNECTED once socketpair() has paired it and once a
\* connect on it has returned 0, and every SOCK_DGRAM endpoint a sendmsg
\* delivers from is SOCKET_CONNECTED.
DgramAlwaysConnected ==
  [][\A e \in EP :
       (ret'.ep = e /\ ret'.rv >= 0 /\ sockets'[e].socket_type_ = "SOCK_DGRAM"
          /\ ret'.op \in {"socketpair", "connect", "sendmsg"})
       => sockets'[e].connect_state_ = "SOCKET_CONNECTED"]_vars

\* the poll events the table gives for READ_WRITE endpoint e
PollTable(e) ==
  LET s == sockets[e]
      has_rx == IF s.socket_type_ = "SOCK_STREAM" THEN s.buffer_ # <<>>
                ELSE s.queue_ # <<>>
      gone == s.socket_type_ # "SOCK_DGRAM" /\ s.peer_ = NULL
      room == \/ s.peer_ = NULL
              \/ s.socket_type_ \in {"SOCK_DGRAM", "SOCK_SEQPACKET"}
              \/ Len(sockets[s.peer_].buffer_) < sockets[s.peer_].capacity
  IN CASE s.connect_state_ = "SOCKET_NEW" -> {"POLLOUT", "POLLHUP"}
       [] s.connect_state_ = "SOCKET_CONNECTING" -> {}
       [] s.connect_state_ = "SOCKET_LISTENING" ->
            {"POLLOUT"} \cup {ev \in {"POLLIN"} : s.connection_queue_ # <<>>}
       [] s.connect_state_ = "SOCKET_CONNECTED" ->
            {ev \in {"POLLIN"} : gone \/ has_rx}
              \cup {ev \in {"POLLOUT"} : room}
              \cup {ev \in {"POLLHUP"} : gone}

\* C16: GetPollEvents equals the table.  For every READ_WRITE endpoint:
\* SOCKET_NEW gives POLLOUT|POLLHUP, SOCKET_CONNECTING nothing,
\* SOCKET_LISTENING POLLOUT and POLLIN exactly when a connect is queued,
\* SOCKET_CONNECTED POLLIN iff the peer of a non-datagram endpoint is gone or
\* there is data to read, POLLOUT iff there is no peer or the type is not
\* SOCK_STREAM or the ring of the peer has room, POLLHUP iff the peer of a
\* non-datagram endpoint is gone.
PollEventsMatchTable ==
  \A e \in EP :
    (Exists(sockets, e) /\ sockets[e].stream_dir_ = "READ_WRITE")
    => GetPollEvents(sockets, e) = PollTable(e)

\* a reader has drained every byte sent to it on a live stream pair, and its
\* POLLIN is clear
DrainedReaderNotReadable ==
  /\ ret.op = "recvmsg" /\ ret.rv >= 1
  /\ sockets[ret.ep].socket_type_ = "SOCK_STREAM"
  /\ sockets[ret.ep].peer_ # NULL
  /\ sockets[ret.ep].buffer_ = <<>>
  /\ hist.read[ret.ep] = hist.written[ret.ep]
  /\ "POLLIN" \notin GetPollEvents(sockets, ret.ep)

\* what SO_PEERCRED returns when there has never been a peer
NoPeerCred == [pid |-> 0, uid |-> -1, gid |-> -1]

\* C17: peer credentials.  SO_PEERCRED is (0, -1, -1) on an endpoint that
\* has not been paired; on an endpoint that has a peer it is what the peer
\* captured at its construction; and once it is set it never changes, also
\* when the peer is released.
PeerCredentials ==
  [][\A e \in EP :
       Exists(sockets', e)
       => /\ (sockets'[e].peer_ = NULL /\ sockets'[e].connect_state_ = "SOCKET_NEW")
               => SoPeerCred(sockets', e) = NoPeerCred
          /\ sockets'[e].peer_ # NULL
               => SoPeerCred(sockets', e) = sockets'[sockets'[e].peer_].my_cred_
          /\ (Exists(sockets, e) /\ SoPeerCred(sockets, e) # NoPeerCred)
               => SoPeerCred(sockets', e) = SoPeerCred(sockets, e)]_vars

\* thread t completes a recvmsg on e that was given iovecs of lengths caps
\* and msg_controllen cl
RecvReturns(t, e, caps, cl) ==
  /\ \/ \E dontwait \in BOOLEAN : recvmsg(t, e, caps, cl, dontwait, TRUE)
     \/ threads[t].ep = e /\ RecvResume(t, caps, cl)
  /\ ret'.op = "recvmsg"

\* C18: MSG_CTRUNC.  A recvmsg that returns at least one byte sets
\* MSG_CTRUNC if and only if it popped an entry of cmsg_fd_queue_ and either
\* closed at least one of its fds or had no room in msg_controllen for the
\* SCM_RIGHTS header at all, whatever the number of fds of the entry.
CtruncIffDropped ==
  [][\A t \in Threads, e \in EP, caps \in RightsCaps, cl \in RightsControlLens :
       (RecvReturns(t, e, caps, cl) /\ ret'.rv >= 1)
       => ("MSG_CTRUNC" \in ret'.msg_flags
           <=> /\ sockets[e].cmsg_fd_queue_ # <<>>
               /\ \/ Range(Head(sockets[e].cmsg_fd_queue_)) \ open_fds' # {}
                  \/ RightsSpace(0) > cl)]_vars

\* C19: MSG_TRUNC.  A recvmsg on a datagram or seqpacket endpoint that pops a
\* datagram sets MSG_TRUNC if and only if the payload of that datagram is
\* longer than the iovecs together; it then returns the capacity of the
\* iovecs and the rest of the datagram is gone with it.
TruncIffLonger ==
  [][\A t \in Threads, e \in EP, caps \in DgramCaps, cl \in ControlLens :
       (/\ RecvReturns(t, e, caps, cl)
        /\ sockets[e].socket_type_ \in {"SOCK_DGRAM", "SOCK_SEQPACKET"}
        /\ sockets[e].queue_ # <<>>)
       => LET payload == Head(sockets[e].queue_).content_
          IN /\ "MSG_TRUNC" \in ret'.msg_flags <=> Len(payload) > SumSeq(caps)
             /\ Len(payload) > SumSeq(caps)
                  => /\ ret'.rv = SumSeq(caps)
                     /\ sockets'[e].queue_ = Tail(sockets[e].queue_)]_vars

\* the fds of every entry of every cmsg_fd_queue_
AllQueuedFds == UNION {QueuedFds(e) : e \in EP}

\* C20: an SCM_RIGHTS fd list is never split.  An entry leaves a
\* cmsg_fd_queue_ whole, popped by one recvmsg on its endpoint that returns
\* at least one byte; the fds that recvmsg delivers are the first fds of
\* that entry and the others are closed; a recvmsg that returns no byte
\* leaves every cmsg_fd_queue_ as it is; and no fd once delivered or dropped
\* is delivered again.
RightsNeverSplit ==
  [][/\ \A e \in EP :
          sockets'[e].cmsg_fd_queue_ # sockets[e].cmsg_fd_queue_
          => \/ sockets'[e].cmsg_fd_queue_ = Append(sockets[e].cmsg_fd_queue_, ret'.fds)
                  /\ ret'.op = "sendmsg"
             \/ /\ ret'.op = "recvmsg" /\ ret'.ep = e /\ ret'.rv >= 1
                /\ sockets[e].cmsg_fd_queue_ # <<>>
                /\ sockets'[e].cmsg_fd_queue_ = Tail(sockets[e].cmsg_fd_queue_)
                /\ IsPrefix(ret'.fds, Head(sockets[e].cmsg_fd_queue_))
                /\ Range(Head(sockets[e].cmsg_fd_queue_)) \ Range(ret'.fds)
                     = open_fds \ open_fds'
     /\ ret'.op = "recvmsg"
          => /\ ret'.rv < 1 => \A e \in EP :
                                 sockets'[e].cmsg_fd_queue_ = sockets[e].cmsg_fd_queue_
             /\ ret'.fds # <<>> => sockets'[ret'.ep].cmsg_fd_queue_
                                     # sockets[ret'.ep].cmsg_fd_queue_
             /\ Range(ret'.fds) \cap hist.delivered_fds = {}
             /\ Range(ret'.fds) \subseteq open_fds'
             /\ Range(ret'.fds) \cap AllQueuedFds' = {}]_vars

\* a recvmsg has delivered the first fd of an entry of two and closed the
\* other, while a later entry stays queued
RightsDeliveredInPart ==
  /\ ret.op = "recvmsg" /\ ret.rv >= 1
  /\ Len(ret.fds) = 1
  /\ "MSG_CTRUNC" \in ret.msg_flags
  /\ sockets[ret.ep].cmsg_fd_queue_ # <<>>

\* C21: control data rides only on delivered payload.  A sendmsg that
\* delivers no byte (it returns 0, or -1 with EAGAIN on a full ring)
\* duplicates no fd and leaves every cmsg_fd_queue_ as it is; a
\* cmsg_fd_queue_ grows only by one entry at a time, and only in a sendmsg
\* that returns at least one byte and has written that many bytes to the
\* endpoint of the queue.  So the entries ever enqueued on an endpoint are
\* never more than the deliveries to it that wrote at least one byte.
ControlRidesOnPayload ==
  [][/\ \A e \in EP :
          Len(sockets'[e].cmsg_fd_queue_) > Len(sockets[e].cmsg_fd_queue_)
          => /\ ret'.op = "sendmsg" /\ ret'.rv >= 1
             /\ SendTarget(sockets, ret'.ep) = e
             /\ Len(sockets'[e].cmsg_fd_queue_) = Len(sockets[e].cmsg_fd_queue_) + 1
             /\ Len(hist'.written[e]) = Len(hist.written[e]) + ret'.rv
     /\ (ret'.op = "sendmsg" /\ ret'.rv < 1)
          => /\ open_fds' = open_fds
             /\ next_fd' = next_fd
             /\ \A e \in EP : sockets'[e].cmsg_fd_queue_ = sockets[e].cmsg_fd_queue_]_vars

\* a one-byte message with an fd was refused with EAGAIN by the full ring of
\* a stream endpoint, and no fd has been duplicated
CtrlSendOnFullRing ==
  /\ ret.op = "sendmsg" /\ ret.rv = -1 /\ ret.errno = "EAGAIN"
  /\ Len(ret.data) = 1
  /\ sockets[ret.ep].socket_type_ = "SOCK_STREAM"
  /\ sockets[ret.ep].peer_ # NULL
  /\ Len(sockets[sockets[ret.ep].peer_].buffer_) = RingCapacity
  /\ next_fd = 1
  /\ open_fds = {}

\* C22: accept order.  A connection queue grows only at its tail.  A
\* successful accept on a listener pairs the first client of its queue that
\* has not been closed, and drops the closed ones before it; the client it
\* pairs is not closed; the endpoint it returns is new, SOCKET_CONNECTED,
\* READ_WRITE, of the socket type of the listener, and it and the client are
\* each the peer of the other.  An accept that fails with EAGAIN, EBADF or
\* EMFILE changes no peer_ and leaves the client at the head of the queue
\* SOCKET_CONNECTING.
AcceptOrder ==
  [][/\ \A e \in EP :
          Len(sockets'[e].connection_queue_) > Len(sockets[e].connection_queue_)
          => \E c \in EP :
               sockets'[e].connection_queue_ = Append(sockets[e].connection_queue_, c)
     /\ (ret'.op = "accept" /\ ret'.rv >= 1)
          => LET l == ret'.ep
                 srv == ret'.rv
                 q == SkipClosed(sockets, sockets[l].connection_queue_)
             IN /\ q # <<>>
                /\ ret'.arg = Head(q)
                /\ sockets'[l].connection_queue_ = Tail(q)
                /\ ~IsClosed(sockets', ret'.arg)
                /\ ~Exists(sockets, srv)
                /\ sockets'[srv].connect_state_ = "SOCKET_CONNECTED"
                /\ sockets'[srv].stream_dir_ = "READ_WRITE"
                /\ sockets'[srv].socket_type_ = sockets[l].socket_type_
                /\ sockets'[srv].peer_ = ret'.arg
                /\ sockets'[ret'.arg].peer_ = srv
     /\ (ret'.op = "accept" /\ ret'.rv = -1
           /\ ret'.errno \in {"EAGAIN", "EBADF", "EMFILE"})
          => /\ \A f \in EP : sockets'[f].peer_ = sockets[f].peer_
             /\ sockets'[ret'.ep].connection_queue_ # <<>>
                  => sockets'[Head(sockets'[ret'.ep].connection_queue_)].connect_state_
                       = "SOCKET_CONNECTING"]_vars

\* a thread waits in connect on e
ConnectWaits(e) == \E t \in Threads : threads[t].op = "connect" /\ threads[t].ep = e

\* C23: connect completes exactly by pairing.  A connect of a stream or
\* seqpacket endpoint that waits when an accept pairs the endpoint eventually
\* returns 0; and whenever such a connect returns 0, the endpoint is
\* SOCKET_CONNECTED and set_peer has been applied to it by an accept,
\* whatever else was called on the endpoint while the connect waited.
ConnectCompletesByPairing ==
  /\ \A e \in 1..ConnEP :
       (ret.op = "accept" /\ ret.rv >= 1 /\ ret.arg = e /\ ConnectWaits(e))
       ~> (ret.op = "connect" /\ ret.ep = e /\ ret.rv = 0)
  /\ [][\A e \in EP :
          (ret'.op = "connect" /\ ret'.ep = e /\ ret'.rv = 0
             /\ sockets'[e].socket_type_ \in {"SOCK_STREAM", "SOCK_SEQPACKET"})
          => /\ sockets'[e].connect_state_ = "SOCKET_CONNECTED"
             /\ sockets'[e].peer_cred_.pid # 0]_vars

\* C24: no connect blocks forever.  A connect of a stream endpoint that has
\* been queued on a listener and waits eventually returns once an accept on
\* the listener has paired it or the last reference of the listener has been
\* released with the endpoint still in its connection queue.
NoConnectBlocksForever ==
  \A e \in 1..BlockEP, l \in 1..BlockEP :
    (/\ ConnectWaits(e)
     /\ \/ ret.op = "accept" /\ ret.ep = l /\ ret.rv >= 1 /\ ret.arg = e
        \/ IsClosed(sockets, l) /\ e \in Range(sockets[l].connection_queue_))
    ~> ~ConnectWaits(e)

\* C25: fd lists stay with their message.  On a datagram or seqpacket
\* endpoint a recvmsg delivers an fd list only together with the datagram
\* that was sent with it: the datagram it returns is one that was sent with
\* control data (in SpecMsg, one of two bytes), and a datagram that was sent
\* without control data (one byte) is received without any fd.
FdListStaysWithMessage ==
  [][\A e \in EP :
       (/\ ret'.op = "recvmsg" /\ ret'.ep = e
        /\ sockets[e].socket_type_ \in {"SOCK_DGRAM", "SOCK_SEQPACKET"}
        /\ ret'.fds # <<>>)
       => /\ sockets[e].queue_ # <<>>
          /\ Len(Head(sockets[e].queue_).content_) = 2
          /\ ret'.data = Head(sockets[e].queue_).content_]_vars

\* thread t waits in recvmsg on e
RecvWaits(t, e) == threads[t].op = "recvmsg" /\ threads[t].ep = e

\* C26: blocked readers are woken.  A thread that waits in recvmsg on an
\* endpoint does not wait for ever while the endpoint has a byte to read or
\* its peer has been released: it returns, or another recvmsg takes what was
\* there.  A recvmsg that ends a wait on an endpoint that is still open
\* returns a positive byte count, or 0 when the peer is gone, and never -1: a
\* woken thread that finds nothing waits again.  Every byte recvmsg returns on an endpoint is returned once,
\* in the order it was written.
BlockedReadersAreWoken ==
  /\ \A t \in 1..ConnThreads, e \in 1..PairEP :
       (RecvWaits(t, e) /\ ~RecvMustWait(sockets, e))
       ~> (~RecvWaits(t, e) \/ RecvMustWait(sockets, e))
  /\ [][\A t \in Threads :
          (threads[t].op = "recvmsg" /\ threads'[t].op = "idle"
             /\ Open(sockets, threads[t].ep))
          => /\ ret'.op = "recvmsg" /\ ret'.ep = threads[t].ep
             /\ \/ ret'.rv >= 1
                \/ ret'.rv = 0 /\ sockets[threads[t].ep].peer_ = NULL]_vars
  /\ [](\A e \in EP : IsPrefix(hist.read[e], hist.written[e]))

\* C27: SOCK_DGRAM routing by name.  After a connect of a SOCK_DGRAM endpoint
\* that has no peer has returned 0 for an address, every sendmsg of one byte
\* on the endpoint appends one datagram with that byte to the queue_ of the
\* endpoint the address names at that time and returns 1, and it returns -1
\* with ECONNREFUSED exactly when the address names no endpoint then.
DgramRoutedByName ==
  [][\A e \in EP :
       (/\ ret'.op = "sendmsg" /\ ret'.ep = e
        /\ sockets[e].socket_type_ = "SOCK_DGRAM"
        /\ sockets[e].peer_ = NULL
        /\ hist.connected_to[e] # NoAddr)
       => LET bound == BoundSocket(hist.connected_to[e])
          IN IF bound = NULL
             THEN ret'.rv = -1 /\ ret'.errno = "ECONNREFUSED"
             ELSE /\ ret'.rv = 1
                  /\ sockets'[bound].queue_ =
                       Append(sockets[bound].queue_,
                              [content_ |-> ret'.data, cred_ |-> sockets[e].my_cred_])]_vars

====
